---- MODULE Spec2Model ----
(***************************************************************************)
(* Task Tracker CLI (src/utils.py).                                        *)
(*                                                                         *)
(* The program keeps two CSV files, active.csv and completed.csv.  Every   *)
(* invocation runs one command: it reads one or both files, changes the    *)
(* list of records in memory and rewrites the file it changed.  The model  *)
(* keeps the TEXT of the two files as its state; every command parses the  *)
(* text with the csv reader and writes it back with the csv writer, both   *)
(* modelled character by character.  Strings are sequences of one-         *)
(* character strings.                                                      *)
(***************************************************************************)
EXTENDS Integers, Sequences, FiniteSets, TLC

VARIABLES activeFile, completedFile, last, running

vars == <<activeFile, completedFile, last, running>>

(***************************************************************************)
(* Bounds of the model.                                                    *)
(***************************************************************************)
\* at most this many records in the two stores together
MaxTasks == 2
\* add_note is explored only while the resulting note is at most this long
MaxNoteLen == 21
\* the same two bounds in SpecNotes, which follows one task through several
\* notes
MaxNotedTasks == 1
MaxLongNoteLen == 47
\* SpecList: at most this many records in the two stores together
MaxListedTasks == 2
\* SpecRace: at most this many invocations run at the same time, and a new
\* task is created only while the stores hold fewer than MaxRaceTasks records
MaxRunning == 2
MaxRaceTasks == 1
MaxDamagedTasks == 1
MaxOrderedTasks == 3
\* SpecStore: the longest cell and the most records handed to write_tasks
MaxCellLen == 3
MaxRows == 2

(***************************************************************************)
(* Strings.                                                                *)
(***************************************************************************)
\* Python's None (a missing command-line option, a missing csv column)
None == <<"None">>

\* the characters str.strip() removes that the model's inputs can hold
Whitespace == {" ", "\t", "\n", "\r", "\f"}

RECURSIVE lstrip(_)
lstrip(s) ==
    IF s = <<>> THEN <<>>
    ELSE IF Head(s) \in Whitespace THEN lstrip(Tail(s))
    ELSE s

RECURSIVE rstrip(_)
rstrip(s) ==
    IF s = <<>> THEN <<>>
    ELSE IF s[Len(s)] \in Whitespace THEN rstrip(SubSeq(s, 1, Len(s) - 1))
    ELSE s

\* a mutant of strip: nothing is removed
strip_removes_nothing(s) == s

\* str.strip()
strip(s) == rstrip(lstrip(s))

RECURSIVE Concat(_)
Concat(ss) == IF ss = <<>> THEN <<>> ELSE Head(ss) \o Concat(Tail(ss))

SeqToSet(s) == {s[i] : i \in 1..Len(s)}

(***************************************************************************)
(* The csv dialect ("excel", the default of csv.DictWriter / DictReader).  *)
(***************************************************************************)
delimiter == ","
quotechar == "\""
lineterminator == <<"\r", "\n">>

\* TASK_FIELDS, as record keys and as the text of the header cells
TASK_FIELDS == <<"id", "title", "state", "note">>

FieldText(k) ==
    CASE k = "id" -> <<"i", "d">>
      [] k = "title" -> <<"t", "i", "t", "l", "e">>
      [] k = "state" -> <<"s", "t", "a", "t", "e">>
      [] k = "note" -> <<"n", "o", "t", "e">>

(***************************************************************************)
(* csv writer (QUOTE_MINIMAL, doublequote).                                *)
(***************************************************************************)
\* a field is quoted when it holds the delimiter, the quote character or a
\* character of the line terminator
QuotedChars == {delimiter, quotechar} \cup SeqToSet(lineterminator)

NeedsQuote(field) == \E i \in 1..Len(field) : field[i] \in QuotedChars

RECURSIVE DoubleQuotes(_)
DoubleQuotes(field) ==
    IF field = <<>> THEN <<>>
    ELSE IF Head(field) = quotechar
         THEN <<quotechar, quotechar>> \o DoubleQuotes(Tail(field))
         ELSE <<Head(field)>> \o DoubleQuotes(Tail(field))

\* a mutant of WriteField: the cells are joined as they are, never quoted
WriteField_never_quotes(field) == IF field = None THEN <<>> ELSE field

\* one cell; None is written as the empty string
WriteField(field) ==
    IF field = None THEN <<>>
    ELSE IF NeedsQuote(field)
         THEN <<quotechar>> \o DoubleQuotes(field) \o <<quotechar>>
         ELSE field

RECURSIVE JoinFields(_)
JoinFields(fields) ==
    IF fields = <<>> THEN <<>>
    ELSE IF Len(fields) = 1 THEN WriteField(fields[1])
    ELSE WriteField(Head(fields)) \o <<delimiter>> \o JoinFields(Tail(fields))

\* csv.writer.writerow: a row of one empty cell is written as ""
writerow(fields) ==
    (IF fields = <<<<>>>> THEN <<quotechar, quotechar>> ELSE JoinFields(fields))
        \o lineterminator

\* DictWriter.writeheader
writeheader == writerow([i \in 1..Len(TASK_FIELDS) |-> FieldText(TASK_FIELDS[i])])

(***************************************************************************)
(* csv reader.  The file is opened with newline='', so the reader sees the *)
(* characters as they are in the file, in lines that end at "\n", "\r" or  *)
(* "\r\n".  The reader is modelled cell by cell: where a cell ends, what   *)
(* it holds, where the row ends.                                           *)
(***************************************************************************)
Newlines == {"\n", "\r"}

\* the index of the character that ends an unquoted cell begun at i, or of
\* the end of the text
RECURSIVE FieldEnd(_, _)
FieldEnd(text, i) ==
    IF i > Len(text) \/ text[i] = delimiter \/ text[i] \in Newlines THEN i
    ELSE FieldEnd(text, i + 1)

\* the index of the quote that closes a quoted cell whose content begins at
\* i; a doubled quote does not close it
RECURSIVE QuoteEnd(_, _)
QuoteEnd(text, i) ==
    IF i > Len(text) THEN i
    ELSE IF text[i] # quotechar THEN QuoteEnd(text, i + 1)
    ELSE IF i < Len(text) /\ text[i + 1] = quotechar THEN QuoteEnd(text, i + 2)
    ELSE i

\* text[i..j-1] with each doubled quote read as one quote
RECURSIVE Unquote(_, _, _)
Unquote(text, i, j) ==
    IF i >= j THEN <<>>
    ELSE IF text[i] = quotechar THEN <<quotechar>> \o Unquote(text, i + 2, j)
    ELSE <<text[i]>> \o Unquote(text, i + 1, j)

\* the cell that begins at i: its content and the index of what ends it.
\* What follows a closing quote up to the next delimiter or newline is
\* taken as part of the cell.
ParseField(text, i) ==
    IF i <= Len(text) /\ text[i] = quotechar
    THEN LET close == QuoteEnd(text, i + 1)
             stop == FieldEnd(text, close + 1)
         IN [field |-> Unquote(text, i + 1, close)
                          \o SubSeq(text, close + 1, stop - 1),
             stop |-> stop]
    ELSE LET stop == FieldEnd(text, i)
         IN [field |-> SubSeq(text, i, stop - 1), stop |-> stop]

\* the index after the line terminator at i
AfterNewline(text, i) ==
    IF text[i] = "\r" /\ i < Len(text) /\ text[i + 1] = "\n" THEN i + 2
    ELSE i + 1

\* the row whose next cell begins at i, after the cells already read
RECURSIVE ParseRow(_, _, _)
ParseRow(text, i, fields) ==
    LET f == ParseField(text, i)
    IN IF f.stop <= Len(text) /\ text[f.stop] = delimiter
       THEN ParseRow(text, f.stop + 1, Append(fields, f.field))
       ELSE [row |-> Append(fields, f.field),
             next |-> IF f.stop > Len(text) THEN f.stop
                      ELSE AfterNewline(text, f.stop)]

\* the rows from index i on; an empty line is the empty row
RECURSIVE ParseRows(_, _, _)
ParseRows(text, i, rows) ==
    IF i > Len(text) THEN rows
    ELSE IF text[i] \in Newlines
         THEN ParseRows(text, AfterNewline(text, i), Append(rows, <<>>))
    ELSE LET r == ParseRow(text, i, <<>>)
         IN ParseRows(text, r.next, Append(rows, r.row))

\* list(csv.reader(file))
csv_reader(text) == ParseRows(text, 1, <<>>)

\* the record key a header cell names
KeyOf(cell) ==
    IF \E i \in 1..Len(TASK_FIELDS) : FieldText(TASK_FIELDS[i]) = cell
    THEN TASK_FIELDS[CHOOSE i \in 1..Len(TASK_FIELDS) :
                         FieldText(TASK_FIELDS[i]) = cell]
    ELSE "?"

\* csv.DictReader.__next__ for one row: dict(zip(fieldnames, row)); missing
\* cells are None (restval); surplus cells go under the key None (restkey),
\* kept here joined, since the program never reads them
DictRow(fieldnames, row) ==
    LET lf == Len(fieldnames)
        lr == Len(row)
        n == IF lf < lr THEN lf ELSE lr
        zipped == [k \in {fieldnames[i] : i \in 1..lf} |->
                     IF \E i \in 1..n : fieldnames[i] = k
                     THEN row[CHOOSE i \in 1..n :
                                /\ fieldnames[i] = k
                                /\ \A j \in (i + 1)..n : fieldnames[j] # k]
                     ELSE None]
    IN IF lf < lr
       THEN zipped @@ ("None" :> Concat(SubSeq(row, lf + 1, lr)))
       ELSE zipped

\* list(csv.DictReader(file)): the first row names the keys, empty rows are
\* skipped
DictReader(rows) ==
    IF rows = <<>> THEN <<>>
    ELSE LET fieldnames == [i \in 1..Len(Head(rows)) |-> KeyOf(Head(rows)[i])]
             body == SelectSeq(Tail(rows), LAMBDA r : r # <<>>)
         IN [i \in 1..Len(body) |-> DictRow(fieldnames, body[i])]

(***************************************************************************)
(* Record Store.                                                           *)
(***************************************************************************)
\* a file that does not exist
Absent == <<"ABSENT">>

\* a byte that is not valid UTF-8, at the head of a file: reading the file
\* raises UnicodeDecodeError
Undecodable == "0xFF"

\* a mutant of read_tasks: the byte that cannot be decoded is skipped
read_tasks_skips_undecodable(file) ==
    IF file = Absent THEN <<>>
    ELSE IF Head(file) = Undecodable THEN DictReader(csv_reader(Tail(file)))
    ELSE DictReader(csv_reader(file))

\* read_tasks: [] for a missing file, and [] when reading raises
read_tasks(file) ==
    IF file = Absent THEN <<>>
    ELSE IF Head(file) = Undecodable THEN <<>>
    ELSE DictReader(csv_reader(file))

\* DictWriter._dict_to_list: the cells in the order of TASK_FIELDS, a missing
\* key gives the empty cell
dict_to_list(task) ==
    [i \in 1..Len(TASK_FIELDS) |->
        IF TASK_FIELDS[i] \in DOMAIN task THEN task[TASK_FIELDS[i]] ELSE <<>>]

\* DictWriter.writerows: a record with a key outside TASK_FIELDS raises
\* ValueError; write_tasks catches it, and the rows written so far stay
RECURSIVE writerows(_)
writerows(tasks) ==
    IF tasks = <<>> THEN <<>>
    ELSE IF ~(DOMAIN Head(tasks) \subseteq SeqToSet(TASK_FIELDS)) THEN <<>>
    ELSE writerow(dict_to_list(Head(tasks))) \o writerows(Tail(tasks))

\* write_tasks: the new text of the file
write_tasks(tasks) == writeheader \o writerows(tasks)

\* a mutant of ensure_file: the file is opened for writing whether it is
\* there or not
ensure_file_truncates(file) == writeheader

\* ensure_files_exist, for one file
ensure_file(file) == IF file = Absent THEN writeheader ELSE file

(***************************************************************************)
(* Inputs.                                                                 *)
(***************************************************************************)
\* str(uuid.uuid4()): any value can come back; create_task keeps 8 characters
UuidTailA == <<"-", "0", "0", "0", "0", "-", "4", "0", "0", "0", "-", "8", "0", "0", "0", "-", "0", "0", "0", "0", "0", "0", "0", "0", "0", "0", "0", "0">>
UuidTailB == <<"-", "f", "f", "f", "f", "-", "4", "f", "f", "f", "-", "b", "f", "f", "f", "-", "f", "f", "f", "f", "f", "f", "f", "f", "f", "f", "f", "f">>
UUIDs ==
    { <<"1", "a", "2", "b", "3", "c", "4", "d">> \o UuidTailA,
      <<"1", "a", "2", "b", "3", "c", "4", "d">> \o UuidTailB,
      <<"9", "e", "8", "f", "7", "a", "6", "b">> \o UuidTailA }

\* the ids a user types: the ones create_task can print
IdArgs == {SubSeq(u, 1, 8) : u \in UUIDs}

\* a blank string, refused as a title and as a note text
Blank == <<" ", "\t">>

\* datetime.now()
Morning == [year |-> 2024, month |-> 1, day |-> 5, hour |-> 9, minute |-> 7]
NewYearsEve ==
    [year |-> 2024, month |-> 12, day |-> 31, hour |-> 23, minute |-> 59]

(***************************************************************************)
(* datetime.strftime("%Y-%m-%d %H:%M")                                     *)
(***************************************************************************)
Digit(d) == <<"0", "1", "2", "3", "4", "5", "6", "7", "8", "9">>[d + 1]

RECURSIVE ZeroPad(_, _)
ZeroPad(n, width) ==
    IF width = 0 THEN <<>>
    ELSE ZeroPad(n \div 10, width - 1) \o <<Digit(n % 10)>>

strftime(now) ==
    ZeroPad(now.year, 4) \o <<"-">> \o ZeroPad(now.month, 2) \o <<"-">>
        \o ZeroPad(now.day, 2) \o <<" ">> \o ZeroPad(now.hour, 2) \o <<":">>
        \o ZeroPad(now.minute, 2)

\* f"[{timestamp}] {additional_note}"
formatted_note(now, additional_note) ==
    <<"[">> \o strftime(now) \o <<"]", " ">> \o additional_note

(***************************************************************************)
(* Presentation.                                                           *)
(***************************************************************************)
TextOpen == <<"O", "p", "e", "n">>
TextCompleted == <<"C", "o", "m", "p", "l", "e", "t", "e", "d">>
TextNotesNone == <<"N", "o", "t", "e", "s", ":", " ", "N", "o", "n", "e">>
TextNotes == <<"N", "o", "t", "e", "s", ":", "\n">>
Ellipsis == <<".", ".", ".">>

StateText(task) == IF task.state = <<"O">> THEN TextOpen ELSE TextCompleted

\* a mutant of display_tasks: a long note is cut after 40 characters
display_tasks_cuts_at_40(tasks) ==
    [i \in 1..Len(tasks) |->
        << tasks[i].id, tasks[i].title, StateText(tasks[i]),
           IF Len(tasks[i].note) > 40
           THEN SubSeq(tasks[i].note, 1, 40) \o Ellipsis
           ELSE tasks[i].note >>]

\* display_tasks: the rows of the table
display_tasks(tasks) ==
    [i \in 1..Len(tasks) |->
        << tasks[i].id, tasks[i].title, StateText(tasks[i]),
           IF Len(tasks[i].note) > 40
           THEN SubSeq(tasks[i].note, 1, 37) \o Ellipsis
           ELSE tasks[i].note >>]

\* show_task_details: the lines printed for one task
task_details(task) ==
    << task.id, task.title, StateText(task),
       IF task.note # <<>> THEN TextNotes \o task.note ELSE TextNotesNone >>

(***************************************************************************)
(* What the last command was and what it printed.                          *)
(*   cmd, id, title, note, flags: the command and its arguments            *)
(*   now: the timestamp add_note took                                      *)
(*   msg: the message printed                                              *)
(*   prior: the record the command found, as it was before the command     *)
(*   shown: the rows or lines the command displayed                        *)
(***************************************************************************)
NoCommand ==
    [cmd |-> "none", id |-> None, title |-> None, note |-> None,
     now |-> None, flags |-> {}, msg |-> "none", prior |-> <<>>,
     shown |-> <<>>]

(***************************************************************************)
(* The invocations that are running, for the specifications that follow a  *)
(* command statement by statement.                                         *)
(*   pc: the statement the invocation is at; cmd, id: the command          *)
(*   task: the record create_task built or complete_task found             *)
(*   tasks: the list in memory that the next write_tasks will write        *)
(*   msg: the message printed                                              *)
(*   loaded: the list the last read_tasks returned                         *)
(*   before: the text of the two files when the invocation began           *)
(*   stale: another invocation has written the file since it was read     *)
(*   at: the statement the invocation was at when it was killed            *)
(* An invocation that has ended keeps cmd, id and msg only.                *)
(***************************************************************************)
Procs == 1..MaxRunning

NotRunning ==
    [pc |-> "idle", cmd |-> "none", id |-> None, task |-> None,
     tasks |-> <<>>, msg |-> "none", loaded |-> <<>>, before |-> <<>>,
     stale |-> FALSE, at |-> "none"]

NoneRunning == [p \in Procs |-> NotRunning]

\* invocation r after it has printed m and ended
Ended(r, m) ==
    [NotRunning EXCEPT !.pc = "exit", !.cmd = r.cmd, !.id = r.id, !.msg = m]

\* index of the first record with this id, 0 when there is none
FirstMatch(tasks, task_id) ==
    IF \E i \in 1..Len(tasks) : tasks[i].id = task_id
    THEN CHOOSE i \in 1..Len(tasks) :
            /\ tasks[i].id = task_id
            /\ \A j \in 1..(i - 1) : tasks[j].id # task_id
    ELSE 0

RemoveAt(tasks, i) == SubSeq(tasks, 1, i - 1) \o SubSeq(tasks, i + 1, Len(tasks))

\* the two files after ensure_files_exist, and the records in them
ActiveEnsured == ensure_file(activeFile)
CompletedEnsured == ensure_file(completedFile)
Active == read_tasks(activeFile)
Completed == read_tasks(completedFile)

Init ==
    /\ activeFile = Absent
    /\ completedFile = Absent
    /\ last = NoCommand
    /\ running = NoneRunning

(***************************************************************************)
(* Task Operations.  Every command is one run of main: ensure_files_exist, *)
(* then the operation.  An operation is given the records read_tasks       *)
(* returns for the file or files it reads (active_tasks, completed_tasks). *)
(***************************************************************************)
\* the record create_task builds
new_task(title, note, uuid) ==
    [id |-> SubSeq(uuid, 1, 8), title |-> title, state |-> <<"O">>,
     note |-> note]

\* create_task(title, note), with uuid the value uuid.uuid4() returns
create_task(title, note, uuid, active_tasks) ==
    LET task == new_task(title, note, uuid)
    IN IF strip(title) = <<>>
       THEN /\ activeFile' = ActiveEnsured
            /\ completedFile' = CompletedEnsured
            /\ last' = [NoCommand EXCEPT !.cmd = "c", !.title = title,
                                         !.note = note,
                                         !.msg = "title_required"]
       ELSE /\ activeFile' = write_tasks(Append(active_tasks, task))
            /\ completedFile' = CompletedEnsured
            /\ last' = [NoCommand EXCEPT !.cmd = "c", !.id = task.id,
                                         !.title = title, !.note = note,
                                         !.msg = "created"]

\* a mutant of remove_task: the records that stay are written last first
remove_task_turns_around(task_id, active_tasks, completed_tasks) ==
    LET turned(tasks) == [k \in 1..Len(tasks) |-> tasks[Len(tasks) + 1 - k]]
        active_kept == SelectSeq(active_tasks, LAMBDA t : t.id # task_id)
        completed_kept == SelectSeq(completed_tasks, LAMBDA t : t.id # task_id)
        said(m) == [NoCommand EXCEPT !.cmd = "rm", !.id = task_id, !.msg = m]
    IN IF Len(active_kept) < Len(active_tasks)
       THEN /\ activeFile' = write_tasks(turned(active_kept))
            /\ completedFile' = CompletedEnsured
            /\ last' = said("removed")
       ELSE IF Len(completed_kept) < Len(completed_tasks)
       THEN /\ activeFile' = ActiveEnsured
            /\ completedFile' = write_tasks(turned(completed_kept))
            /\ last' = said("removed")
       ELSE /\ activeFile' = ActiveEnsured
            /\ completedFile' = CompletedEnsured
            /\ last' = said("not_found")

\* remove_task(task_id)
remove_task(task_id, active_tasks, completed_tasks) ==
    LET active_kept == SelectSeq(active_tasks, LAMBDA t : t.id # task_id)
        completed_kept == SelectSeq(completed_tasks, LAMBDA t : t.id # task_id)
        said(m) == [NoCommand EXCEPT !.cmd = "rm", !.id = task_id, !.msg = m]
    IN IF Len(active_kept) < Len(active_tasks)
       THEN /\ activeFile' = write_tasks(active_kept)
            /\ completedFile' = CompletedEnsured
            /\ last' = said("removed")
       ELSE IF Len(completed_kept) < Len(completed_tasks)
       THEN /\ activeFile' = ActiveEnsured
            /\ completedFile' = write_tasks(completed_kept)
            /\ last' = said("removed")
       ELSE /\ activeFile' = ActiveEnsured
            /\ completedFile' = CompletedEnsured
            /\ last' = said("not_found")

\* a mutant of updated: an argument left out clears the field
updated_clears_absent(task, title, note) ==
    [task EXCEPT !.title = IF title # None THEN title ELSE <<>>,
                 !.note = IF note # None THEN note ELSE <<>>]

\* a mutant of updated: an update opens the task again
updated_reopens(task, title, note) ==
    [task EXCEPT !.title = IF title # None THEN title ELSE @,
                 !.note = IF note # None THEN note ELSE @,
                 !.state = <<"O">>]

\* the assignments of update_task to the record found
updated(task, title, note) ==
    [task EXCEPT !.title = IF title # None THEN title ELSE @,
                 !.note = IF note # None THEN note ELSE @]

\* update_task(task_id, title, note); None is an argument left out
update_task(task_id, title, note, active_tasks, completed_tasks) ==
    LET i == FirstMatch(active_tasks, task_id)
        j == FirstMatch(completed_tasks, task_id)
        said(m, found) ==
            [NoCommand EXCEPT !.cmd = "upd", !.id = task_id, !.title = title,
                              !.note = note, !.msg = m, !.prior = found]
    IN IF i # 0
       THEN /\ activeFile' = write_tasks(
                 [active_tasks EXCEPT ![i] = updated(@, title, note)])
            /\ completedFile' = CompletedEnsured
            /\ last' = said("updated", <<active_tasks[i]>>)
       ELSE IF j # 0
       THEN /\ activeFile' = ActiveEnsured
            /\ completedFile' = write_tasks(
                 [completed_tasks EXCEPT ![j] = updated(@, title, note)])
            /\ last' = said("updated", <<completed_tasks[j]>>)
       ELSE /\ activeFile' = ActiveEnsured
            /\ completedFile' = CompletedEnsured
            /\ last' = said("not_found", <<>>)

\* the note add_note gives the record found
annotated(task, entry) ==
    LET current_note == strip(task.note)
    IN [task EXCEPT !.note = IF current_note # <<>>
                             THEN current_note \o <<"\n">> \o entry
                             ELSE entry]

\* add_note(task_id, additional_note), with now the value of datetime.now()
add_note(task_id, additional_note, now, active_tasks, completed_tasks) ==
    LET entry == formatted_note(now, additional_note)
        i == FirstMatch(active_tasks, task_id)
        j == FirstMatch(completed_tasks, task_id)
        said(m, found) ==
            [NoCommand EXCEPT !.cmd = "note", !.id = task_id,
                              !.note = additional_note,
                              !.now = IF m = "note_required" THEN None
                                      ELSE strftime(now),
                              !.msg = m, !.prior = found]
    IN IF strip(additional_note) = <<>>
       THEN /\ activeFile' = ActiveEnsured
            /\ completedFile' = CompletedEnsured
            /\ last' = said("note_required", <<>>)
       ELSE IF i # 0
       THEN /\ activeFile' = write_tasks(
                 [active_tasks EXCEPT ![i] = annotated(@, entry)])
            /\ completedFile' = CompletedEnsured
            /\ last' = said("note_added", <<active_tasks[i]>>)
       ELSE IF j # 0
       THEN /\ activeFile' = ActiveEnsured
            /\ completedFile' = write_tasks(
                 [completed_tasks EXCEPT ![j] = annotated(@, entry)])
            /\ last' = said("note_added", <<completed_tasks[j]>>)
       ELSE /\ activeFile' = ActiveEnsured
            /\ completedFile' = CompletedEnsured
            /\ last' = said("not_found", <<>>)

\* a mutant of mark_completed: the state is left as it was
mark_completed_keeps_state(task) == task

\* completed_task['state'] = 'X'
mark_completed(task) == [task EXCEPT !.state = <<"X">>]

\* a mutant of complete_task: a task not found in the active store is looked
\* up in the completed store and completed again
complete_task_searches_both(task_id, active_tasks, completed_tasks) ==
    LET i == FirstMatch(active_tasks, task_id)
        j == FirstMatch(completed_tasks, task_id)
        said(m, found) ==
            [NoCommand EXCEPT !.cmd = "done", !.id = task_id, !.msg = m,
                              !.prior = found]
    IN IF i = 0 /\ j = 0
       THEN /\ activeFile' = ActiveEnsured
            /\ completedFile' = CompletedEnsured
            /\ last' = said("not_found_in_active", <<>>)
       ELSE IF i = 0
       THEN /\ activeFile' = ActiveEnsured
            /\ completedFile' = write_tasks(
                   Append(RemoveAt(completed_tasks, j), completed_tasks[j]))
            /\ last' = said("completed", <<completed_tasks[j]>>)
       ELSE /\ activeFile' = write_tasks(RemoveAt(active_tasks, i))
            /\ completedFile' = write_tasks(
                   Append(completed_tasks, mark_completed(active_tasks[i])))
            /\ last' = said("completed", <<active_tasks[i]>>)

\* complete_task(task_id)
complete_task(task_id, active_tasks, completed_tasks) ==
    LET i == FirstMatch(active_tasks, task_id)
        completed_task == mark_completed(active_tasks[i])
        said(m, found) ==
            [NoCommand EXCEPT !.cmd = "done", !.id = task_id, !.msg = m,
                              !.prior = found]
    IN IF i = 0
       THEN /\ activeFile' = ActiveEnsured
            /\ completedFile' = CompletedEnsured
            /\ last' = said("not_found_in_active", <<>>)
       ELSE /\ activeFile' = write_tasks(RemoveAt(active_tasks, i))
            /\ completedFile' = write_tasks(Append(completed_tasks, completed_task))
            /\ last' = said("completed", <<active_tasks[i]>>)

\* the ls command: list_tasks(False), list_tasks(True), or both for --all
list_tasks(completed, all, active_tasks, completed_tasks) ==
    /\ activeFile' = ActiveEnsured
    /\ completedFile' = CompletedEnsured
    /\ last' = [NoCommand EXCEPT
                  !.cmd = "ls",
                  !.flags = (IF completed THEN {"completed"} ELSE {})
                              \cup (IF all THEN {"all"} ELSE {}),
                  !.msg = "listed",
                  !.shown = IF all
                            THEN display_tasks(active_tasks)
                                    \o display_tasks(completed_tasks)
                            ELSE IF completed
                                 THEN display_tasks(completed_tasks)
                                 ELSE display_tasks(active_tasks)]

\* show_task_details(task_id)
show_task_details(task_id, active_tasks, completed_tasks) ==
    LET i == FirstMatch(active_tasks, task_id)
        j == FirstMatch(completed_tasks, task_id)
        said(m, lines) ==
            [NoCommand EXCEPT !.cmd = "view", !.id = task_id, !.msg = m,
                              !.shown = lines]
    IN /\ activeFile' = ActiveEnsured
       /\ completedFile' = CompletedEnsured
       /\ last' = IF i # 0 THEN said("details", <<task_details(active_tasks[i])>>)
                  ELSE IF j # 0
                       THEN said("details", <<task_details(completed_tasks[j])>>)
                       ELSE said("not_found", <<>>)

\* main without a command: the files are created, the usage is printed
print_help ==
    /\ activeFile' = ActiveEnsured
    /\ completedFile' = CompletedEnsured
    /\ last' = [NoCommand EXCEPT !.cmd = "help", !.msg = "usage"]

(***************************************************************************)
(* The commands as main calls them, over given sets of arguments.  Each    *)
(* binds active_tasks and completed_tasks to what read_tasks returns for   *)
(* the two files as the command finds them.                                *)
(***************************************************************************)
\* c title [--note NOTE]: create_task(args.title, args.note or "");
\* a task is added only while the stores hold fewer than max records
Create(titles, notes, max) ==
    \E active_tasks \in {read_tasks(ActiveEnsured)},
       completed_tasks \in {read_tasks(CompletedEnsured)} :
       \E title \in titles, note \in notes, uuid \in UUIDs :
          /\ strip(title) # <<>> =>
                Len(active_tasks) + Len(completed_tasks) < max
          /\ create_task(title, IF note = None THEN <<>> ELSE note, uuid,
                         active_tasks)
          /\ UNCHANGED running

\* rm id
Remove ==
    \E active_tasks \in {read_tasks(ActiveEnsured)},
       completed_tasks \in {read_tasks(CompletedEnsured)} :
       \E task_id \in IdArgs :
          /\ remove_task(task_id, active_tasks, completed_tasks)
          /\ UNCHANGED running

\* upd id [--title TITLE]: update_task(args.id, args.title)
Update(titles) ==
    \E active_tasks \in {read_tasks(ActiveEnsured)},
       completed_tasks \in {read_tasks(CompletedEnsured)} :
       \E task_id \in IdArgs, title \in titles :
          /\ update_task(task_id, title, None, active_tasks, completed_tasks)
          /\ UNCHANGED running

\* done id
Complete ==
    \E active_tasks \in {read_tasks(ActiveEnsured)},
       completed_tasks \in {read_tasks(CompletedEnsured)} :
       \E task_id \in IdArgs :
          /\ complete_task(task_id, active_tasks, completed_tasks)
          /\ UNCHANGED running

\* the note of the record add_note would change, <<>> when there is none
NoteOf(task_id, active_tasks, completed_tasks) ==
    IF FirstMatch(active_tasks, task_id) # 0
    THEN active_tasks[FirstMatch(active_tasks, task_id)].note
    ELSE IF FirstMatch(completed_tasks, task_id) # 0
         THEN completed_tasks[FirstMatch(completed_tasks, task_id)].note
         ELSE <<>>

\* note id text; explored while the note stays within maxlen characters
Annotate(texts, times, maxlen) ==
    \E active_tasks \in {read_tasks(ActiveEnsured)},
       completed_tasks \in {read_tasks(CompletedEnsured)} :
       \E task_id \in IdArgs, text \in texts, now \in times :
          /\ strip(text) # <<>> =>
                Len(strip(NoteOf(task_id, active_tasks, completed_tasks))) + 1
                   + Len(formatted_note(now, text)) <= maxlen
          /\ add_note(task_id, text, now, active_tasks, completed_tasks)
          /\ UNCHANGED running

\* ls [--completed] [--all]
List ==
    \E active_tasks \in {read_tasks(ActiveEnsured)},
       completed_tasks \in {read_tasks(CompletedEnsured)} :
       \E completed \in BOOLEAN, all \in BOOLEAN :
          /\ list_tasks(completed, all, active_tasks, completed_tasks)
          /\ UNCHANGED running

\* view id
View ==
    \E active_tasks \in {read_tasks(ActiveEnsured)},
       completed_tasks \in {read_tasks(CompletedEnsured)} :
       \E task_id \in IdArgs :
          /\ show_task_details(task_id, active_tasks, completed_tasks)
          /\ UNCHANGED running

\* no command
Help == print_help /\ UNCHANGED running

(***************************************************************************)
(* create_task and complete_task statement by statement, for invocation p. *)
(* Each read_tasks and each write_tasks is one step; an invocation can be  *)
(* killed between any two steps.                                           *)
(***************************************************************************)
\* main for "c title": ensure_files_exist, then create_task up to its read
main_create(p, title, uuid) ==
    /\ running[p].pc = "idle"
    /\ strip(title) # <<>>
    /\ activeFile' = ActiveEnsured
    /\ completedFile' = CompletedEnsured
    /\ running' = [running EXCEPT ![p] =
          [NotRunning EXCEPT !.pc = "c_read", !.cmd = "c",
                             !.id = SubSeq(uuid, 1, 8),
                             !.task = new_task(title, <<>>, uuid),
                             !.before = <<ActiveEnsured, CompletedEnsured>>]]
    /\ UNCHANGED last

\* main for "done id": ensure_files_exist, then complete_task up to its read
main_done(p, task_id) ==
    /\ running[p].pc = "idle"
    /\ activeFile' = ActiveEnsured
    /\ completedFile' = CompletedEnsured
    /\ running' = [running EXCEPT ![p] =
          [NotRunning EXCEPT !.pc = "d_read_active", !.cmd = "done",
                             !.id = task_id,
                             !.before = <<ActiveEnsured, CompletedEnsured>>]]
    /\ UNCHANGED last

\* the other invocations that hold a list read from a file that p now
\* overwrites: their list is stale
Overwritten(p, pcs) ==
    [q \in Procs |->
        IF q # p /\ running[q].pc \in pcs
        THEN [running[q] EXCEPT !.stale = TRUE]
        ELSE running[q]]

\* the statements at which an invocation holds a list read from active.csv,
\* and from completed.csv, that it has yet to write
HoldsActive == {"c_write", "d_write_active"}
HoldsCompleted == {"d_write_completed"}

\* tasks = read_tasks(ACTIVE_TASKS_FILE); tasks.append(task)
create_read(p) ==
    /\ running[p].pc = "c_read"
    /\ \E tasks \in {read_tasks(activeFile)} :
          running' = [running EXCEPT ![p].loaded = tasks,
                                     ![p].tasks = Append(tasks, running[p].task),
                                     ![p].stale = FALSE,
                                     ![p].pc = "c_write"]
    /\ UNCHANGED <<activeFile, completedFile, last>>

\* a mutant of create_write: the file is read again and the task appended
\* to what it holds now
create_write_reloads(p) ==
    /\ running[p].pc = "c_write"
    /\ activeFile' =
          write_tasks(Append(read_tasks(activeFile), running[p].task))
    /\ running' = [Overwritten(p, HoldsActive) EXCEPT
                      ![p] = Ended(running[p], "created")]
    /\ UNCHANGED <<completedFile, last>>

\* write_tasks(ACTIVE_TASKS_FILE, tasks); print
create_write(p) ==
    /\ running[p].pc = "c_write"
    /\ activeFile' = write_tasks(running[p].tasks)
    /\ running' = [Overwritten(p, HoldsActive) EXCEPT
                      ![p] = Ended(running[p], "created")]
    /\ UNCHANGED <<completedFile, last>>

\* active_tasks = read_tasks(ACTIVE_TASKS_FILE), the loop that finds and
\* pops the task, and the return when there is none
complete_read_active(p) ==
    /\ running[p].pc = "d_read_active"
    /\ \E active_tasks \in {read_tasks(activeFile)} :
          LET i == FirstMatch(active_tasks, running[p].id)
          IN running' = [running EXCEPT ![p] =
                IF i = 0
                THEN Ended(@, "not_found_in_active")
                ELSE [@ EXCEPT !.loaded = active_tasks,
                               !.task = mark_completed(active_tasks[i]),
                               !.tasks = RemoveAt(active_tasks, i),
                               !.stale = FALSE,
                               !.pc = "d_write_active"]]
    /\ UNCHANGED <<activeFile, completedFile, last>>

\* a mutant of complete_write_active: the list is written as it was read,
\* with the task still in it
complete_write_active_keeps_task(p) ==
    /\ running[p].pc = "d_write_active"
    /\ activeFile' = write_tasks(running[p].loaded)
    /\ running' = [Overwritten(p, HoldsActive) EXCEPT
                      ![p].pc = "d_read_completed"]
    /\ UNCHANGED <<completedFile, last>>

\* write_tasks(ACTIVE_TASKS_FILE, active_tasks)
complete_write_active(p) ==
    /\ running[p].pc = "d_write_active"
    /\ activeFile' = write_tasks(running[p].tasks)
    /\ running' = [Overwritten(p, HoldsActive) EXCEPT
                      ![p].pc = "d_read_completed"]
    /\ UNCHANGED <<completedFile, last>>

\* completed_tasks = read_tasks(COMPLETED_TASKS_FILE);
\* completed_tasks.append(completed_task)
complete_read_completed(p) ==
    /\ running[p].pc = "d_read_completed"
    /\ \E completed_tasks \in {read_tasks(completedFile)} :
          running' = [running EXCEPT
                        ![p].loaded = completed_tasks,
                        ![p].tasks = Append(completed_tasks, running[p].task),
                        ![p].stale = FALSE,
                        ![p].pc = "d_write_completed"]
    /\ UNCHANGED <<activeFile, completedFile, last>>

\* write_tasks(COMPLETED_TASKS_FILE, completed_tasks); print
complete_write_completed(p) ==
    /\ running[p].pc = "d_write_completed"
    /\ completedFile' = write_tasks(running[p].tasks)
    /\ running' = [Overwritten(p, HoldsCompleted) EXCEPT
                      ![p] = Ended(running[p], "completed")]
    /\ UNCHANGED <<activeFile, last>>

\* the process is killed before its next statement
crash(p) ==
    /\ running[p].pc \notin {"idle", "exit", "crashed"}
    /\ running' = [running EXCEPT ![p].pc = "crashed",
                                  ![p].at = running[p].pc]
    /\ UNCHANGED <<activeFile, completedFile, last>>

\* the process is gone
exit(p) ==
    /\ running[p].pc \in {"exit", "crashed"}
    /\ running' = [running EXCEPT ![p] = NotRunning]
    /\ UNCHANGED <<activeFile, completedFile, last>>

\* an invocation of "c a" or of "done id" begins, as the next process of P;
\* a task is created only while the stores hold fewer than max records
Invoke(P, max) ==
    \E p \in P :
       \/ /\ \A q \in P : q < p => running[q].pc # "idle"
          /\ Len(Active) + Len(Completed) < max
          /\ \E uuid \in UUIDs : main_create(p, <<"a">>, uuid)
       \/ /\ \A q \in P : q < p => running[q].pc # "idle"
          /\ \E task_id \in IdArgs : main_done(p, task_id)

\* a running invocation executes its next statement
Step(P) ==
    \E p \in P :
       \/ create_read(p)
       \/ create_write(p)
       \/ complete_read_active(p)
       \/ complete_write_active(p)
       \/ complete_read_completed(p)
       \/ complete_write_completed(p)

Crash(P) == \E p \in P : crash(p)

Exit(P) == \E p \in P : exit(p)

(***************************************************************************)
(* SpecCrash: one invocation at a time, statement by statement, that can   *)
(* be killed at any statement.                                             *)
(***************************************************************************)
NextCrash ==
    \/ Invoke({1}, MaxTasks)
    \/ Step({1})
    \/ Crash({1})
    \/ Exit({1})

SpecCrash == Init /\ [][NextCrash]_vars

(***************************************************************************)
(* SpecRace: invocations that run one after the other, then up to          *)
(* MaxRunning invocations that run at the same time, with no lock on the   *)
(* files.                                                                  *)
(***************************************************************************)
\* an invocation that ran alone has ended: the process is gone.  (The
\* invocations that ran at the same time stay, with what they printed.)
ExitAlone ==
    /\ running[1].pc = "exit"
    /\ \A p \in Procs \ {1} : running[p].pc = "idle"
    /\ running' = NoneRunning
    /\ UNCHANGED <<activeFile, completedFile, last>>

NextRace ==
    \/ Invoke(Procs, MaxRaceTasks)
    \/ Step(Procs)
    \/ ExitAlone

SpecRace == Init /\ [][NextRace]_vars

(***************************************************************************)
(* Spec: the commands that change tasks, and view, with plain arguments.   *)
(***************************************************************************)
TitleArgs == { Blank, <<"a">> }
NewTitleArgs == { None, <<"b", ",", "\"">> }
TextArgs == { Blank, <<"m">> }

CreatePlain == Create(TitleArgs, {None}, MaxTasks)
UpdateTitle == Update(NewTitleArgs)
AnnotateOnce == Annotate(TextArgs, {Morning}, MaxNoteLen)

Next ==
    \/ CreatePlain
    \/ Remove
    \/ UpdateTitle
    \/ Complete
    \/ AnnotateOnce
    \/ View

Spec == Init /\ [][Next]_vars

(***************************************************************************)
(* SpecNotes: one task and its note through create, note, done, ls, view.  *)
(***************************************************************************)
\* a --note value with a leading blank, a delimiter, a quote and a newline
NoteArgs == { None, <<" ", ",", "\"", "\r", "\n", "x">> }

CreateNoted == Create({<<"a">>}, NoteArgs, MaxNotedTasks)
AnnotateAgain == Annotate(TextArgs, {Morning, NewYearsEve}, MaxLongNoteLen)

NextNotes ==
    \/ CreateNoted
    \/ AnnotateAgain
    \/ Complete
    \/ List
    \/ View

SpecNotes == Init /\ [][NextNotes]_vars

(***************************************************************************)
(* SpecList: tasks created with notes of 40, 41 and 50 characters through  *)
(* done, ls and view.                                                      *)
(***************************************************************************)
\* a note of n characters, a letter for each position
LettersNote(n) ==
    [i \in 1..n |->
        <<"a", "b", "c", "d", "e", "f", "g", "h", "i", "j">>[(i % 10) + 1]]

LongNoteArgs == { LettersNote(40), LettersNote(41), LettersNote(50) }

CreateListed == Create({<<"a">>}, LongNoteArgs, MaxListedTasks)

NextList ==
    \/ CreateListed
    \/ Complete
    \/ List
    \/ View

SpecList == Init /\ [][NextList]_vars

(***************************************************************************)
(* SpecBlank: create and note with empty and blank arguments, among tasks  *)
(* that are open and completed.                                            *)
(***************************************************************************)
BlankArgs == { <<>>, <<" ">>, Blank }

CreateBlank == Create(BlankArgs \cup {<<"a">>}, {None}, MaxTasks)
AnnotateBlank == Annotate(BlankArgs \cup {<<"m">>}, {Morning}, MaxNoteLen)

NextBlank ==
    \/ CreateBlank
    \/ AnnotateBlank
    \/ Complete

SpecBlank == Init /\ [][NextBlank]_vars

(***************************************************************************)
(* SpecDamaged: the commands of Spec on files that, from outside the       *)
(* program, can come to hold a byte that cannot be decoded.                *)
(***************************************************************************)
\* one of the two files, both there and readable, is damaged
Damage ==
    /\ activeFile # Absent /\ Head(activeFile) # Undecodable
    /\ completedFile # Absent /\ Head(completedFile) # Undecodable
    /\ \/ /\ activeFile' = <<Undecodable>> \o activeFile
          /\ UNCHANGED completedFile
       \/ /\ completedFile' = <<Undecodable>> \o completedFile
          /\ UNCHANGED activeFile
    /\ last' = [NoCommand EXCEPT !.msg = "damaged"]
    /\ UNCHANGED running

CreateDamaged == Create({<<"a">>}, {None}, MaxDamagedTasks)
UpdateDamaged == Update({<<"b">>})

NextDamaged ==
    \/ Damage
    \/ CreateDamaged
    \/ Remove
    \/ UpdateDamaged
    \/ Complete
    \/ AnnotateOnce
    \/ View

SpecDamaged == Init /\ [][NextDamaged]_vars

(***************************************************************************)
(* SpecEnsure: invocations with and without a command, on files that can   *)
(* be deleted from outside the program.                                    *)
(***************************************************************************)
\* one of the two files is deleted
Unlink ==
    /\ \/ /\ activeFile # Absent
          /\ activeFile' = Absent
          /\ UNCHANGED completedFile
       \/ /\ completedFile # Absent
          /\ completedFile' = Absent
          /\ UNCHANGED activeFile
    /\ last' = [NoCommand EXCEPT !.msg = "unlinked"]
    /\ UNCHANGED running

NextEnsure ==
    \/ Help
    \/ Unlink
    \/ CreatePlain
    \/ Complete
    \/ View

SpecEnsure == Init /\ [][NextEnsure]_vars

(***************************************************************************)
(* SpecOrder: up to MaxOrderedTasks tasks, so that a store keeps two       *)
(* records when one is removed.                                            *)
(***************************************************************************)
CreateOrdered == Create({<<"a">>}, {None}, MaxOrderedTasks)
UpdateOrdered == Update({<<"a">>})

NextOrder ==
    \/ CreateOrdered
    \/ Remove
    \/ UpdateOrdered
    \/ Complete
    \/ AnnotateOnce

SpecOrder == Init /\ [][NextOrder]_vars

(***************************************************************************)
(* SpecStore: write_tasks and read_tasks on their own.  The records to be  *)
(* saved are drawn in the initial state and kept in last.prior; save       *)
(* writes them to a store, load reads a store into last.shown.             *)
(***************************************************************************)
Alphabet == {"x", delimiter, quotechar, "\r", "\n"}

\* the strings over Alphabet of length n
RECURSIVE Strings(_)
Strings(n) ==
    IF n = 0 THEN {<<>>}
    ELSE {Append(s, c) : s \in Strings(n - 1), c \in Alphabet}

Cells == UNION {Strings(n) : n \in 0..MaxCellLen}

\* Python's reversed()
Reverse(s) == [i \in 1..Len(s) |-> s[Len(s) + 1 - i]]

\* a record for a cell: the cell is the note, and read backwards the title
SampleTask(n) ==
    [id |-> SubSeq(CHOOSE u \in UUIDs : TRUE, 1, 8), title |-> Reverse(n),
     state |-> <<"O">>, note |-> n]

\* cells for the lists of several records
TrickyCells ==
    { <<>>, <<"x", ",", "\"", "\r", "\n", "x">>, <<"\n">>, <<"\"", "\"">> }

RECURSIVE Lists(_)
Lists(n) ==
    IF n = 0 THEN {<<>>}
    ELSE {Append(l, SampleTask(c)) : l \in Lists(n - 1), c \in TrickyCells}

\* no record, one record with any cell, up to MaxRows records with tricky
\* cells
SampleLists ==
    {<<SampleTask(c)>> : c \in Cells} \cup UNION {Lists(n) : n \in 0..MaxRows}

InitStore ==
    /\ activeFile = Absent
    /\ completedFile = Absent
    /\ \E tasks \in SampleLists : last = [NoCommand EXCEPT !.prior = tasks]
    /\ running = NoneRunning

\* write_tasks(file_path, tasks) with the records of last.prior
save(store) ==
    /\ activeFile' = IF store = "active" THEN write_tasks(last.prior)
                     ELSE activeFile
    /\ completedFile' = IF store = "completed" THEN write_tasks(last.prior)
                        ELSE completedFile
    /\ last' = [NoCommand EXCEPT !.cmd = "save", !.flags = {store},
                                 !.prior = last.prior]

\* read_tasks(file_path)
load(store) ==
    /\ UNCHANGED <<activeFile, completedFile>>
    /\ last' = [NoCommand EXCEPT
                  !.cmd = "load", !.flags = {store}, !.prior = last.prior,
                  !.shown = IF store = "active" THEN read_tasks(activeFile)
                            ELSE read_tasks(completedFile)]

Save == \E store \in {"active", "completed"} : save(store) /\ UNCHANGED running
Load == \E store \in {"active", "completed"} : load(store) /\ UNCHANGED running

NextStore ==
    \/ Save
    \/ Load

SpecStore == InitStore /\ [][NextStore]_vars

(***************************************************************************)
(* Properties.                                                             *)
(***************************************************************************)
Ids(tasks) == {tasks[i].id : i \in 1..Len(tasks)}
ActiveIds == Ids(Active)
CompletedIds == Ids(Completed)
StoredIds == ActiveIds \cup CompletedIds

\* the two files are as the last command found them, but for a missing file
\* that ensure_files_exist created
StoresUntouched ==
    /\ activeFile' = ActiveEnsured
    /\ completedFile' = CompletedEnsured

\* C1: an id that was created and not removed is in exactly one store: no id
\* is in both stores, the id create prints is in a store, and an id in a
\* store stays in a store across every command but its own removal
C1_ExactlyOneStore ==
    [][ LET before == StoredIds
            activeAfter == Ids(read_tasks(activeFile'))
            completedAfter == Ids(read_tasks(completedFile'))
        IN /\ activeAfter \cap completedAfter = {}
           /\ last'.msg = "created" =>
                 last'.id \in activeAfter \cup completedAfter
           /\ \A id \in before :
                 ~(last'.cmd = "rm" /\ last'.id = id) =>
                     id \in activeAfter \cup completedAfter ]_vars

\* C2: no two records of the two stores together carry the same id
C2_UniqueIds ==
    LET all == Active \o Completed
    IN \A i, j \in 1..Len(all) : all[i].id = all[j].id => i = j

\* C3: every record of the active store has state O and every record of the
\* completed store has state X
C3_StateMatchesStore ==
    \A active_tasks \in {Active}, completed_tasks \in {Completed} :
       /\ \A i \in 1..Len(active_tasks) : active_tasks[i].state = <<"O">>
       /\ \A i \in 1..Len(completed_tasks) :
             completed_tasks[i].state = <<"X">>

\* C3 witness: a task was completed while another stayed open
C3_Witness ==
    /\ last.cmd = "done" /\ last.msg = "completed"
    /\ Active # <<>> /\ Completed # <<>>

\* C4: complete(id) for an id in the active store leaves the id absent from
\* the active store and present in the completed store, with state X and the
\* title and note it had
C4_CompleteMoves ==
    [][ (last'.cmd = "done" /\ last'.id \in ActiveIds) =>
           LET activeAfter == read_tasks(activeFile')
               completedAfter == read_tasks(completedFile')
           IN /\ last'.id \notin Ids(activeAfter)
              /\ \E j \in 1..Len(completedAfter) :
                    /\ completedAfter[j].id = last'.id
                    /\ completedAfter[j].state = <<"X">>
                    /\ completedAfter[j].title = last'.prior[1].title
                    /\ completedAfter[j].note = last'.prior[1].note ]_vars

\* C5: complete(id) for an id that is not in the active store reports
\* NotFoundInActive and leaves both stores as they were
C5_CompleteNotFound ==
    [][ last'.cmd = "done" =>
           \A active_tasks \in {Active} :
              last'.id \notin Ids(active_tasks) =>
                 /\ last'.msg = "not_found_in_active"
                 /\ StoresUntouched
                 /\ read_tasks(activeFile') = active_tasks
                 /\ read_tasks(completedFile') = Completed ]_vars

\* C5 witness: complete was refused for a task that is already completed
C5_Witness ==
    /\ last.cmd = "done" /\ last.msg = "not_found_in_active"
    /\ last.id \in CompletedIds

\* C6: a remove(id) right after a remove(id) that removed a task reports
\* NotFound and changes neither store, and so does every remove of an id that
\* is in neither store
C6_RemoveTwice ==
    [][ /\ (last.cmd = "rm" /\ last.msg = "removed"
              /\ last'.cmd = "rm" /\ last'.id = last.id) =>
                 (last'.msg = "not_found" /\ StoresUntouched)
        /\ (last'.cmd = "rm" /\ last'.id \notin StoredIds) =>
                 (last'.msg = "not_found" /\ StoresUntouched) ]_vars

\* the record update_task found (the first with the id, the active store
\* first) is at the same place of the same store, changed only in the fields
\* that were supplied, and every other record of both stores is as it was
UpdateFrame(old, new, k, title, note) ==
    /\ Len(new) = Len(old)
    /\ \A n \in 1..Len(old) : n # k => new[n] = old[n]
    /\ DOMAIN new[k] = DOMAIN old[k]
    /\ new[k].id = old[k].id
    /\ new[k].state = old[k].state
    /\ new[k].title = IF title = None THEN old[k].title ELSE title
    /\ new[k].note = IF note = None THEN old[k].note ELSE note

\* C8: update of an existing task changes only the fields supplied, never the
\* id or the state, keeps the task in its store and leaves every other record
\* of both stores unchanged
C8_UpdateFrame ==
    [][ last'.cmd = "upd" =>
           \A active_tasks \in {Active}, completed_tasks \in {Completed},
              activeAfter \in {read_tasks(activeFile')},
              completedAfter \in {read_tasks(completedFile')} :
              last'.id \in Ids(active_tasks) \cup Ids(completed_tasks) =>
                 /\ last'.msg = "updated"
                 /\ IF last'.id \in Ids(active_tasks)
                    THEN /\ UpdateFrame(active_tasks, activeAfter,
                                        FirstMatch(active_tasks, last'.id),
                                        last'.title, last'.note)
                         /\ completedAfter = completed_tasks
                    ELSE /\ UpdateFrame(completed_tasks, completedAfter,
                                        FirstMatch(completed_tasks, last'.id),
                                        last'.title, last'.note)
                         /\ activeAfter = active_tasks ]_vars

\* C8 witness: an update with a new title and no note was applied to a task
\* that has a note, while the stores hold another record
C8_Witness ==
    /\ last.cmd = "upd" /\ last.msg = "updated"
    /\ last.title # None /\ last.note = None
    /\ last.prior[1].note # <<>>
    /\ Len(Active) + Len(Completed) >= 2

\* C9: view of the id that a create(title) just printed shows that title,
\* state Open and no note
C9_CreateThenView ==
    [][ (last.cmd = "c" /\ last.msg = "created" /\ last.note = <<>>
           /\ last'.cmd = "view" /\ last'.id = last.id) =>
              last'.shown =
                 << <<last.id, last.title, TextOpen, TextNotesNone>> >> ]_vars

\* C7: after two successive annotate(id, text) calls on a task, its note is
\* the whole prior note, then the two entries "[YYYY-MM-DD HH:MM] text" in
\* call order, each after one newline (the first entry begins the note when
\* there was no prior note)
C7_TwoAnnotations ==
    [][ (/\ last.cmd = "note" /\ last.msg = "note_added"
         /\ last'.cmd = "note" /\ last'.msg = "note_added"
         /\ last'.id = last.id) =>
           LET prior == last.prior[1].note
               first == <<"[">> \o last.now \o <<"]", " ">> \o last.note
               second == <<"[">> \o last'.now \o <<"]", " ">> \o last'.note
           IN NoteOf(last'.id, read_tasks(activeFile'),
                     read_tasks(completedFile'))
                 = (IF prior = <<>> THEN <<>> ELSE prior \o <<"\n">>)
                      \o first \o <<"\n">> \o second ]_vars

\* C10: save on a store followed by load on the same store returns the
\* records that were saved, field for field and in the same order
C10_RoundTrip ==
    [][ (last.cmd = "save" /\ last'.cmd = "load" /\ last'.flags = last.flags)
           => last'.shown = last.prior ]_vars

\* C10 witness: two records were saved and loaded, one of them with a note
\* that holds a delimiter or a quote, another with a newline in a cell
C10_Witness ==
    /\ last.cmd = "load" /\ Len(last.shown) = 2 /\ last.shown = last.prior
    /\ \E i \in 1..2 : \E n \in 1..Len(last.shown[i].note) :
          last.shown[i].note[n] \in {delimiter, quotechar}
    /\ \E i \in 1..2 : \E n \in 1..Len(last.shown[i].title) :
          last.shown[i].title[n] \in Newlines

\* the note cell of a list row for a stored note: the note itself when it has
\* at most 40 characters, else its first 37 characters and three dots
ListedNote(note, cell) ==
    IF Len(note) <= 40 THEN cell = note
    ELSE /\ Len(cell) = 40
         /\ \A n \in 1..37 : cell[n] = note[n]
         /\ \A n \in 38..40 : cell[n] = "."

\* C11: ls shows a note of more than 40 characters as its first 37
\* characters and an ellipsis and a shorter note whole, view shows the whole
\* note, and neither changes the text of the two files (a missing file is
\* created with the header alone)
C11_NoteRendering ==
    [][ last'.cmd \in {"ls", "view"} =>
           \A active_tasks \in {Active}, completed_tasks \in {Completed} :
              /\ StoresUntouched
              /\ last'.cmd = "ls" =>
                    LET listed == IF "all" \in last'.flags
                                  THEN active_tasks \o completed_tasks
                                  ELSE IF "completed" \in last'.flags
                                       THEN completed_tasks
                                       ELSE active_tasks
                    IN /\ Len(last'.shown) = Len(listed)
                       /\ \A i \in 1..Len(listed) :
                             ListedNote(listed[i].note, last'.shown[i][4])
              /\ (last'.cmd = "view" /\ last'.msg = "details") =>
                    LET note == NoteOf(last'.id, active_tasks, completed_tasks)
                    IN note # <<>> => last'.shown[1][4] = TextNotes \o note
       ]_vars

\* C11 witness: ls showed a stored note of more than 40 characters cut to 37
\* characters and the ellipsis
C11_Witness ==
    /\ last.cmd = "ls" /\ last.flags = {} /\ Len(last.shown) = 1
    /\ \A active_tasks \in {Active} :
          /\ Len(active_tasks) = 1
          /\ Len(active_tasks[1].note) = 50
          /\ last.shown[1][4] = SubSeq(active_tasks[1].note, 1, 37) \o Ellipsis

\* the statement invocation r is at, or was at when it was killed
At(r) == IF r.pc = "crashed" THEN r.at ELSE r.pc

\* C12: complete(id) writes the active store without the task first and the
\* completed store with the task appended second: until the first write
\* both stores are as they were, between the two writes (also after a crash
\* there) the active store is without the task and the completed store is
\* as it was, after the second write the completed store ends with the
\* task; the task is never in both stores
C12_TwoWrites ==
    [][ \A p \in {1} :
          (running'[p].cmd = "done" /\ running[p].pc # "idle") =>
             \A active_before \in {read_tasks(running[p].before[1])},
                completed_before \in {read_tasks(running[p].before[2])},
                active_after \in {read_tasks(activeFile')},
                completed_after \in {read_tasks(completedFile')} :
                LET i == FirstMatch(active_before, running[p].id)
                    at == At(running'[p])
                IN /\ at \in {"d_read_active", "d_write_active"} =>
                         /\ active_after = active_before
                         /\ completed_after = completed_before
                   /\ at \in {"d_read_completed", "d_write_completed"} =>
                         /\ i # 0
                         /\ active_after = RemoveAt(active_before, i)
                         /\ completed_after = completed_before
                   /\ (at = "exit" /\ running'[p].msg = "completed") =>
                         /\ i # 0
                         /\ active_after = RemoveAt(active_before, i)
                         /\ completed_after =
                               Append(completed_before,
                                      [active_before[i] EXCEPT
                                          !.state = <<"X">>]) ]_vars

\* C12 witness: complete was killed between its two writes, and the id of
\* the task is in neither store
C12_Witness ==
    /\ running[1].pc = "crashed"
    /\ running[1].at \in {"d_read_completed", "d_write_completed"}
    /\ running[1].id \notin StoredIds
    /\ FirstMatch(read_tasks(running[1].before[1]), running[1].id) # 0

\* the list invocation r holds, after its own change: what r loaded, plus
\* the task it creates or completes, or minus the task it completes
OwnChange(r) ==
    IF r.pc = "d_write_active"
    THEN RemoveAt(r.loaded, FirstMatch(r.loaded, r.id))
    ELSE Append(r.loaded, r.task)

\* C13: when an invocation saves a store that another invocation has saved
\* since it loaded it, the store then holds what the later saver loaded with
\* the later saver's change only: the earlier saver's change is lost
C13_LostUpdate ==
    [][ \A q \in Procs :
          ( /\ running[q].pc \in HoldsActive \cup HoldsCompleted
            /\ running[q].stale
            /\ running'[q].pc # running[q].pc ) =>
             \A saved \in {OwnChange(running[q])} :
                IF running[q].pc \in HoldsActive
                THEN /\ read_tasks(activeFile') = saved
                     /\ completedFile' = completedFile
                ELSE /\ read_tasks(completedFile') = saved
                     /\ activeFile' = activeFile ]_vars

\* C13 witness: two invocations of create that ran at the same time both
\* reported their task created, and the active store holds one task, the
\* one of the later saver
C13_Witness ==
    /\ running[1].cmd = "c" /\ running[1].msg = "created"
    /\ running[2].cmd = "c" /\ running[2].msg = "created"
    /\ running[1].id # running[2].id
    /\ \A active_tasks \in {Active} :
          /\ Len(active_tasks) = 1
          /\ active_tasks[1].id \in {running[1].id, running[2].id}

\* C14: remove(id) for an id in a store deletes the first record with the
\* id, of the active store if it has one and else of the completed store,
\* and every other record of that store and the whole other store stay
C14_RemoveOne ==
    [][ (last'.cmd = "rm" /\ last'.id \in StoredIds) =>
           \A active_tasks \in {Active}, completed_tasks \in {Completed} :
              LET i == FirstMatch(active_tasks, last'.id)
                  j == FirstMatch(completed_tasks, last'.id)
              IN /\ last'.msg = "removed"
                 /\ i # 0 =>
                       /\ read_tasks(activeFile') = RemoveAt(active_tasks, i)
                       /\ completedFile' = completedFile
                 /\ i = 0 =>
                       /\ read_tasks(completedFile') =
                             RemoveAt(completed_tasks, j)
                       /\ activeFile' = activeFile ]_vars

\* C15: a record of the completed store stays in the completed store, at
\* its place and with state X, across every command but a remove; the
\* active store gains a record only by create, and that record is built
\* from the arguments of create; the completed store gains a record only by
\* complete, and that record is the one complete took out of the active
\* store, with state X.  (A command that leaves both files as they were
\* moves nothing.)
C15_OneWay ==
    [][ (activeFile' # activeFile \/ completedFile' # completedFile) =>
        \A active_tasks \in {Active}, completed_tasks \in {Completed},
           active_after \in {read_tasks(activeFile')},
           completed_after \in {read_tasks(completedFile')} :
           /\ \A k \in 1..Len(completed_after) :
                 completed_after[k].state = <<"X">>
           /\ last'.cmd # "rm" =>
                 /\ Len(completed_after) >= Len(completed_tasks)
                 /\ \A k \in 1..Len(completed_tasks) :
                       completed_after[k].id = completed_tasks[k].id
           /\ last'.cmd = "rm" =>
                 /\ Len(active_after) <= Len(active_tasks)
                 /\ Len(completed_after) <= Len(completed_tasks)
           /\ Len(active_after) > Len(active_tasks) =>
                 /\ last'.cmd = "c"
                 /\ active_after =
                       Append(active_tasks,
                              [id |-> last'.id, title |-> last'.title,
                               state |-> <<"O">>, note |-> last'.note])
           /\ Len(completed_after) > Len(completed_tasks) =>
                 /\ last'.cmd = "done"
                 /\ LET i == FirstMatch(active_tasks, last'.id)
                    IN /\ i # 0
                       /\ active_after = RemoveAt(active_tasks, i)
                       /\ completed_after =
                             Append(completed_tasks,
                                    [active_tasks[i] EXCEPT
                                        !.state = <<"X">>]) ]_vars

\* C15 witness: a completed task was given a new title, and it is in the
\* completed store with state X and not in the active store
C15_Witness ==
    /\ last.cmd = "upd" /\ last.msg = "updated" /\ last.title # None
    /\ last.id \notin ActiveIds
    /\ \A completed_tasks \in {Completed} :
          \E k \in 1..Len(completed_tasks) :
             /\ completed_tasks[k].id = last.id
             /\ completed_tasks[k].title = last.title
             /\ completed_tasks[k].state = <<"X">>

\* C16: create with an empty or blank title, and note with an empty or
\* blank text, report the error and leave both files, and so the records
\* and notes in them, as they were
C16_ValidationFailure ==
    [][ LET blank(s) == \A n \in 1..Len(s) : s[n] \in Whitespace
        IN /\ (last'.cmd = "c" /\ blank(last'.title)) =>
                 /\ last'.msg = "title_required"
                 /\ StoresUntouched
                 /\ read_tasks(activeFile') = Active
                 /\ read_tasks(completedFile') = Completed
           /\ (last'.cmd = "note" /\ blank(last'.note)) =>
                 /\ last'.msg = "note_required"
                 /\ StoresUntouched
                 /\ read_tasks(activeFile') = Active
                 /\ read_tasks(completedFile') = Completed ]_vars

\* C16 witness: a note with a blank text was refused for a task that is
\* stored and has a note, next to another task
C16_Witness ==
    /\ last.cmd = "note" /\ last.msg = "note_required" /\ last.note = Blank
    /\ \A active_tasks \in {Active}, completed_tasks \in {Completed} :
          /\ Len(active_tasks) + Len(completed_tasks) = 2
          /\ NoteOf(last.id, active_tasks, completed_tasks) # <<>>

\* C17: while a file cannot be read, its store is empty for every command:
\* rm, upd, note and view of an id that is not in the other store, and done
\* of any id when it is the active store, report not found and write
\* nothing; create leaves the active store with the new task only, and
\* done the completed store with the completed task only
C17_ReadFailure ==
    [][ LET activeFails == Head(activeFile) = Undecodable
            completedFails == Head(completedFile) = Undecodable
            by_id == /\ last'.cmd \in {"rm", "upd", "note", "view"}
                     /\ last'.msg # "note_required"
            nothing_written == /\ activeFile' = activeFile
                               /\ completedFile' = completedFile
        IN /\ (activeFails /\ by_id /\ last'.id \notin CompletedIds) =>
                 (last'.msg = "not_found" /\ nothing_written)
           /\ (completedFails /\ by_id /\ last'.id \notin ActiveIds) =>
                 (last'.msg = "not_found" /\ nothing_written)
           /\ (activeFails /\ last'.cmd = "done") =>
                 (last'.msg = "not_found_in_active" /\ nothing_written)
           /\ (activeFails /\ last'.msg = "created") =>
                 /\ read_tasks(activeFile') =
                       << [id |-> last'.id, title |-> last'.title,
                           state |-> <<"O">>, note |-> last'.note] >>
                 /\ completedFile' = completedFile
           /\ (completedFails /\ last'.msg = "completed") =>
                 read_tasks(completedFile') =
                    << [last'.prior[1] EXCEPT !.state = <<"X">>] >> ]_vars

\* C17 witness: upd reported not found for an id whose record is in the
\* active file, which cannot be read
C17_Witness ==
    /\ Head(activeFile) = Undecodable
    /\ last.cmd = "upd" /\ last.msg = "not_found"
    /\ last.id \in Ids(DictReader(csv_reader(Tail(activeFile))))

\* what ensure_files_exist is to do with one file: a file that is absent
\* becomes the header alone, a file that is there stays as it is
Initialized(before, after) ==
    IF before = Absent
    THEN after = writeheader /\ read_tasks(after) = <<>>
    ELSE after = before

\* C18: an invocation without a command, which only runs
\* ensure_files_exist, creates each absent file with the header alone and
\* leaves each file that is there, and the records of both stores, as they
\* were; run again it changes nothing; and every command that fails before
\* it writes leaves the files as ensure_files_exist alone does, and create
\* and view leave so the files they do not write
C18_EnsureFiles ==
    [][ /\ last'.cmd = "help" =>
              /\ Initialized(activeFile, activeFile')
              /\ Initialized(completedFile, completedFile')
              /\ read_tasks(activeFile') = Active
              /\ read_tasks(completedFile') = Completed
        /\ (last.cmd = "help" /\ last'.cmd = "help") =>
              (activeFile' = activeFile /\ completedFile' = completedFile)
        /\ last'.cmd # "none" =>
              (activeFile' # Absent /\ completedFile' # Absent)
        /\ last'.msg \in {"title_required", "not_found_in_active",
                          "details", "not_found"} =>
              /\ Initialized(activeFile, activeFile')
              /\ Initialized(completedFile, completedFile')
        /\ last'.msg = "created" =>
              Initialized(completedFile, completedFile') ]_vars

\* C18 witness: an invocation without a command ran while both stores held
\* a task, and they hold them
C18_Witness ==
    /\ last.cmd = "help"
    /\ Active # <<>> /\ Completed # <<>>

\* C19: every command keeps the records it does not take out of a store in
\* the order they had: create adds its record after the records of the
\* active store, complete takes one record with the id out of the active
\* store and adds it after the records of the completed store, remove
\* leaves the records with another id in their order, and update and note
\* leave every record at its place, at most one of them changed
C19_OrderKept ==
    [][ last'.msg \in {"created", "completed", "removed", "updated",
                       "note_added"} =>
        \A active_tasks \in {Active}, completed_tasks \in {Completed},
           active_after \in {read_tasks(activeFile')},
           completed_after \in {read_tasks(completedFile')} :
           /\ last'.msg = "created" =>
                 /\ Len(active_after) = Len(active_tasks) + 1
                 /\ SubSeq(active_after, 1, Len(active_tasks)) = active_tasks
                 /\ active_after[Len(active_after)].id = last'.id
                 /\ completed_after = completed_tasks
           /\ last'.msg = "completed" =>
                 /\ Len(completed_after) = Len(completed_tasks) + 1
                 /\ SubSeq(completed_after, 1, Len(completed_tasks)) =
                       completed_tasks
                 /\ completed_after[Len(completed_after)].id = last'.id
                 /\ \E i \in 1..Len(active_tasks) :
                       /\ active_tasks[i].id = last'.id
                       /\ active_after = RemoveAt(active_tasks, i)
           /\ last'.msg = "removed" =>
                 LET others(tasks) ==
                        SelectSeq(tasks, LAMBDA t : t.id # last'.id)
                 IN \/ /\ active_after = others(active_tasks)
                       /\ completed_after = completed_tasks
                    \/ /\ active_after = active_tasks
                       /\ completed_after = others(completed_tasks)
           /\ last'.msg \in {"updated", "note_added"} =>
                 /\ Len(active_after) = Len(active_tasks)
                 /\ Len(completed_after) = Len(completed_tasks)
                 /\ \A k \in 1..Len(active_tasks) :
                       active_after[k].id = active_tasks[k].id
                 /\ \A k \in 1..Len(completed_tasks) :
                       completed_after[k].id = completed_tasks[k].id
                 /\ Cardinality({k \in 1..Len(active_tasks) :
                                    active_after[k] # active_tasks[k]})
                    + Cardinality({k \in 1..Len(completed_tasks) :
                                    completed_after[k] # completed_tasks[k]})
                    <= 1 ]_vars

\* C19 witness: remove took a record out of the active store, which keeps
\* two records that differ
C19_Witness ==
    /\ last.cmd = "rm" /\ last.msg = "removed"
    /\ \A active_tasks \in {Active} :
          /\ Len(active_tasks) = 2
          /\ active_tasks[1] # active_tasks[2]

====
